---- MODULE Spec2Model ----
(***************************************************************************)
(* Inbound synchronisation of remote video playlists (PeerTube):          *)
(* refreshVideoPlaylistIfNeeded, createAccountPlaylists,                  *)
(* createOrUpdateVideoPlaylist and resetVideoPlaylistElements, as a state *)
(* machine over the playlist and playlist-element tables.                 *)
(***************************************************************************)
EXTENDS Integers, Sequences, FiniteSets, TLC

\* ------------------------------------------------------------------ bounds
MaxTime == 4
MaxItems == 2
\* items of the collection when the map of resetVideoPlaylistElements is taken alone
MapItems == 3

\* --------------------------------------------------------------- constants
\* ACTIVITY_PUB.VIDEO_PLAYLIST_REFRESH_INTERVAL, in clock ticks
REFRESH_INTERVAL == 1
\* concurrency of Bluebird.map over the element urls
CRAWL_REQUEST_CONCURRENCY == 2
\* an element object that declares no position
NoPosition == -1
\* ACTIVITY_PUB.FETCH_PAGE_LIMIT: the most pages one crawl fetches
FETCH_PAGE_LIMIT == 3

PUBLIC_AUDIENCE == "https://www.w3.org/ns/activitystreams#Public"
Undefined == [type |-> "undefined"]
Null == "null"

\* the callers of refreshVideoPlaylistIfNeeded
Procs == {"w1"}

\* ------------------------------------------------------------------- urls
Url(h, n) == [host |-> h, path |-> n]
PlaylistUrls == {Url("a", 1), Url("a", 2)}
Items == 1..MaxItems
ElementUrl(i) == Url("a", 10 + i)
VideoUrl(i) == Url("a", 100 + i)

checkUrlsSameHost(url1, url2) == url1.host = url2.host

\* --------------------------------------------------------- remote objects
Icon == [type |-> "Image", url |-> "img"]
PlaylistObject(id, to, attributedTo, icon) ==
  [type |-> "Playlist", id |-> id, name |-> "n1", content |-> "c1", to |-> to,
   attributedTo |-> attributedTo, icon |-> icon]

\* the manifests a remote may publish for a playlist
PlaylistObjects ==
  {PlaylistObject(Url("a", 1), <<PUBLIC_AUDIENCE>>, <<"chan">>, Icon),
   PlaylistObject(Url("a", 1), <<"followers">>, <<>>, Undefined),
   PlaylistObject(Url("a", 1), <<"followers", PUBLIC_AUDIENCE>>, <<"chan", "acct">>, Icon),
   PlaylistObject(Url("a", 1), <<"followers">>, <<"acct">>, Icon),
   PlaylistObject(Url("a", 2), <<PUBLIC_AUDIENCE>>, <<"chan">>, Icon),
   PlaylistObject(Url("b", 1), <<PUBLIC_AUDIENCE>>, <<"chan">>, Icon)}

\* a body that fails the structural validation, but carries an id
InvalidBodies == [type : {"Note"}, id : {Url("a", 1), Url("b", 1)}]

isPlaylistObjectValid(body) == body # Undefined /\ body.type = "Playlist"

\* the position the remote declares for item i: every item but the second has one
DeclaredPosition(i) == IF i = 2 THEN NoPosition ELSE i

\* the element object served for item i, by a remote of host h
ElementObject(i, h) ==
  [type |-> "PlaylistElement", id |-> Url(h, 10 + i), url |-> VideoUrl(i),
   position |-> DeclaredPosition(i), startTimestamp |-> 0, stopTimestamp |-> 5 * i]

isPlaylistElementObjectValid(body) == body # Undefined /\ body.type = "PlaylistElement"

\* || null of JavaScript on a number: 0 and undefined both give null
OrNull(x) == IF x = 0 \/ x = NoPosition THEN Null ELSE ToString(x)

\* increasing selections of the known items: what a crawl may gather
RECURSIVE SeqOfSet(_)
SeqOfSet(S) ==
  IF S = {} THEN <<>>
  ELSE LET m == CHOOSE x \in S : \A y \in S : x <= y
       IN <<m>> \o SeqOfSet(S \ {m})
Collections == {SeqOfSet(S) : S \in SUBSET Items}
Range(s) == {s[k] : k \in DOMAIN s}

\* ------------------------------------------------------------------ state
VARIABLES now, remote, db, elems, pc, loc, hist
vars == <<now, remote, db, elems, pc, loc, hist>>

\* isOutdated of the playlist model: the refresh interval has elapsed
isOutdated(row, t) == t - row.lastRefreshedAt > REFRESH_INTERVAL

\* setAsRefreshed of the playlist model: saves the row with the time of the save
setAsRefreshed(d, u, t) ==
  IF u \in DOMAIN d THEN [d EXCEPT ![u].lastRefreshedAt = t] ELSE d

\* destroy of the playlist model: the row goes, its elements go by cascade
destroyRow(d, u) == [x \in DOMAIN d \ {u} |-> d[x]]
destroyElements(es, u) == {e \in es : e.videoPlaylistId # u}

ElementsOf(es, u) == {e \in es : e.videoPlaylistId = u}

\* --------------------------------------------------- attribute conversion
\* only the first audience tested for the public marker
playlistObjectToDBAttributes_FirstAudience(playlistObject, byAccount, to) ==
  [name |-> playlistObject.name,
   description |-> playlistObject.content,
   privacy |-> IF Len(to) > 0 /\ to[1] = PUBLIC_AUDIENCE THEN "PUBLIC" ELSE "UNLISTED",
   url |-> playlistObject.id,
   ownerAccountId |-> byAccount,
   videoChannelId |-> Null]

playlistObjectToDBAttributes(playlistObject, byAccount, to) ==
  LET privacy == IF \E k \in DOMAIN to : to[k] = PUBLIC_AUDIENCE
                 THEN "PUBLIC" ELSE "UNLISTED"
  IN [name |-> playlistObject.name,
      description |-> playlistObject.content,
      privacy |-> privacy,
      url |-> playlistObject.id,
      ownerAccountId |-> byAccount,
      videoChannelId |-> Null]

playlistElementObjectToDBAttributes(elementObject, videoPlaylist, video) ==
  [position |-> elementObject.position,
   url |-> elementObject.id,
   startTimestamp |-> OrNull(elementObject.startTimestamp),
   stopTimestamp |-> OrNull(elementObject.stopTimestamp),
   videoPlaylistId |-> videoPlaylist,
   videoId |-> video]

\* getOrCreateActorAndServerAndModel: the actor behind an attributedTo url
ActorVideoChannel(actorUrl) == IF actorUrl = "chan" THEN "channel1" ELSE Null

\* the attributes createOrUpdateVideoPlaylist hands to the upsert
UpsertAttributes(playlistObject, byAccount, to) ==
  LET playlistAttributes == playlistObjectToDBAttributes(playlistObject, byAccount, to)
  IN IF Len(playlistObject.attributedTo) = 1
        /\ ActorVideoChannel(playlistObject.attributedTo[1]) # Null
     THEN [playlistAttributes EXCEPT
             !.videoChannelId = ActorVideoChannel(playlistObject.attributedTo[1])]
     ELSE playlistAttributes

\* VideoPlaylistModel.upsert: insert by url, or update the given columns
upsert(d, a, t) ==
  LET row == [name |-> a.name, description |-> a.description, privacy |-> a.privacy,
              ownerAccountId |-> a.ownerAccountId, videoChannelId |-> a.videoChannelId,
              lastRefreshedAt |-> IF a.url \in DOMAIN d THEN d[a.url].lastRefreshedAt ELSE t]
  IN [x \in DOMAIN d \cup {a.url} |-> IF x = a.url THEN row ELSE d[x]]

\* ----------------------------------------------------------- remote fetch
\* the same-host check left out
fetchRemoteVideoPlaylist_NoHostCheck(playlistUrl, statusCode, body) ==
  IF isPlaylistObjectValid(body) = FALSE
  THEN [statusCode |-> statusCode, playlistObject |-> Undefined]
  ELSE [statusCode |-> statusCode, playlistObject |-> body]

fetchRemoteVideoPlaylist(playlistUrl, statusCode, body) ==
  IF isPlaylistObjectValid(body) = FALSE \/ checkUrlsSameHost(body.id, playlistUrl) # TRUE
  THEN [statusCode |-> statusCode, playlistObject |-> Undefined]
  ELSE [statusCode |-> statusCode, playlistObject |-> body]

\* ------------------------------------------------------------ local state
OldRow ==
  [name |-> "n0", description |-> "c0", privacy |-> "UNLISTED", ownerAccountId |-> "account1",
   videoChannelId |-> Null, lastRefreshedAt |-> 0]

\* an element row left by an earlier reconciliation
OldElement(u, i) == playlistElementObjectToDBAttributes(ElementObject(i, "a"), u, i)

NoLoc ==
  [caller |-> "refresh", nextLink |-> FALSE, pages |-> 0,
   videoPlaylist |-> Url("a", 1), instance |-> OldRow, playlistObject |-> Undefined,
   playlist |-> Url("a", 1), accItems |-> <<>>, itemSt |-> [i \in Items |-> "todo"],
   elementsToCreate |-> <<>>, txDel |-> {}, txIns |-> <<>>]

\* the items the call before this one pushed, in that order, when it reconciled
NoPrev == [committed |-> FALSE, order |-> <<>>]

\* what a call has met so far, kept for the properties: the tables and the clock when
\* it began, what the remote answered, and how it ended
NoHist ==
  [preDb |-> [u \in {} |-> OldRow], preElems |-> {}, startAt |-> 0,
   fetch |-> "none", notFound |-> FALSE, bodyOk |-> FALSE, thumb |-> "none",
   resolved |-> {}, txFailed |-> FALSE, actorFailed |-> FALSE, gathered |-> <<>>,
   path |-> "none", ret |-> "none", endAt |-> 0, prev |-> NoPrev]

Init ==
  /\ now = 2
  /\ remote \in PlaylistObjects
  /\ db = [u \in {Url("a", 1)} |-> OldRow]
  /\ elems = {OldElement(u, i) : u \in DOMAIN db, i \in {0, 1}}
  /\ pc = [p \in Procs |-> "idle"]
  /\ loc = [p \in Procs |-> NoLoc]
  /\ hist = [p \in Procs |-> NoHist]

\* --------------------------------------------- refreshVideoPlaylistIfNeeded
Finish(h, path, ret, t) == [h EXCEPT !.path = path, !.ret = ret, !.endAt = t]

\* the reconciliation the last call of p made, if it made one
Previous(p) ==
  IF pc[p] = "done" /\ hist[p].path = "reconciled"
  THEN [committed |-> TRUE,
        order |-> [k \in DOMAIN loc[p].elementsToCreate |-> loc[p].elementsToCreate[k].videoId]]
  ELSE NoPrev

\* the staleness test left out: every call fetches
NeedsRefresh_Always(row, t) == TRUE

\* line 157: only an outdated playlist goes on to the fetch
NeedsRefresh(row, t) == isOutdated(row, t)

\* the call and its first line: a playlist that is not outdated is returned as is
Start(p, u) ==
  /\ pc[p] \in {"idle", "done"}
  /\ u \in DOMAIN db
  /\ loc' = [loc EXCEPT ![p] = [NoLoc EXCEPT !.videoPlaylist = u, !.instance = db[u]]]
  /\ LET h == [NoHist EXCEPT !.preDb = db, !.preElems = elems, !.startAt = now,
                             !.prev = Previous(p)]
     IN IF ~NeedsRefresh(db[u], now)
        THEN /\ pc' = [pc EXCEPT ![p] = "done"]
             /\ hist' = [hist EXCEPT ![p] = Finish(h, "fresh", "videoPlaylist", now)]
        ELSE /\ pc' = [pc EXCEPT ![p] = "fetch"]
             /\ hist' = [hist EXCEPT ![p] = h]
  /\ UNCHANGED <<now, remote, db, elems>>

\* the missing object tested before the status: a 404 with no valid body is not a removal
AfterFetch_BodyFirst(r) ==
  IF r.playlistObject = Undefined THEN "refreshInvalid"
  ELSE IF r.statusCode = 404 THEN "destroy"
  ELSE "upsert"

\* a missing object taken for a playlist that is gone
AfterFetch_InvalidIsGone(r) ==
  IF r.statusCode = 404 \/ r.playlistObject = Undefined THEN "destroy"
  ELSE "upsert"

\* where the call goes once fetchRemoteVideoPlaylist has answered
AfterFetch(r) ==
  IF r.statusCode = 404 THEN "destroy"
  ELSE IF r.playlistObject = Undefined THEN "refreshInvalid"
  ELSE "upsert"

\* a body that passes the structural validation and the same-host check
Acceptable(body, playlistUrl) ==
  isPlaylistObjectValid(body) /\ checkUrlsSameHost(body.id, playlistUrl)

\* the remote answers the manifest request with a status and a body
FetchManifest(p) ==
  /\ pc[p] = "fetch"
  /\ \E statusCode \in {200, 404, 500}, body \in {remote} \cup InvalidBodies \cup {Undefined} :
       LET r == fetchRemoteVideoPlaylist(loc[p].videoPlaylist, statusCode, body)
       IN /\ pc' = [pc EXCEPT ![p] = AfterFetch(r)]
          /\ loc' = [loc EXCEPT ![p].playlistObject = r.playlistObject]
          /\ hist' = [hist EXCEPT ![p].fetch = "answered",
                                  ![p].notFound = (statusCode = 404),
                                  ![p].bodyOk = Acceptable(body, loc[p].videoPlaylist)]
  /\ UNCHANGED <<now, remote, db, elems>>

\* doRequest rejects: network failure, timeout
FetchThrows(p) ==
  /\ pc[p] = "fetch"
  /\ pc' = [pc EXCEPT ![p] = "catch"]
  /\ hist' = [hist EXCEPT ![p].fetch = "threw"]
  /\ UNCHANGED <<now, remote, db, elems, loc>>

\* statusCode === 404: the playlist is destroyed and undefined is returned
Destroy(p) ==
  /\ pc[p] = "destroy"
  /\ db' = destroyRow(db, loc[p].videoPlaylist)
  /\ elems' = destroyElements(elems, loc[p].videoPlaylist)
  /\ pc' = [pc EXCEPT ![p] = "done"]
  /\ hist' = [hist EXCEPT ![p] = Finish(@, "notFound", "undefined", now)]
  /\ UNCHANGED <<now, remote, loc>>

DestroyFails(p) ==
  /\ pc[p] = "destroy"
  /\ pc' = [pc EXCEPT ![p] = "catch"]
  /\ UNCHANGED <<now, remote, db, elems, loc, hist>>

\* playlistObject === undefined: the playlist is only marked as refreshed
RefreshInvalidDb(d, u, t) == setAsRefreshed(d, u, t)

RefreshInvalid(p) ==
  /\ pc[p] = "refreshInvalid"
  /\ db' = RefreshInvalidDb(db, loc[p].videoPlaylist, now)
  /\ pc' = [pc EXCEPT ![p] = "done"]
  /\ hist' = [hist EXCEPT ![p] = Finish(@, "invalid", "videoPlaylist", now)]
  /\ UNCHANGED <<now, remote, elems, loc>>

RefreshInvalidFails(p) ==
  /\ pc[p] = "refreshInvalid"
  /\ pc' = [pc EXCEPT ![p] = "catch"]
  /\ UNCHANGED <<now, remote, db, elems, loc, hist>>

\* the catch block only warns
CatchDb_NoMark(d, u, t) == d

\* the catch block: warn, mark as refreshed, return the playlist
CatchDb(d, u, t) == setAsRefreshed(d, u, t)

Catch(p) ==
  /\ pc[p] = "catch"
  /\ loc[p].caller = "refresh"
  /\ db' = CatchDb(db, loc[p].videoPlaylist, now)
  /\ pc' = [pc EXCEPT ![p] = "done"]
  /\ hist' = [hist EXCEPT ![p] = Finish(@, "caught", "videoPlaylist", now)]
  /\ UNCHANGED <<now, remote, elems, loc>>

\* setAsRefreshed rejects inside the catch block: nothing catches it
CatchFails(p) ==
  /\ pc[p] = "catch"
  /\ loc[p].caller = "refresh"
  /\ pc' = [pc EXCEPT ![p] = "done"]
  /\ hist' = [hist EXCEPT ![p] = Finish(@, "caught", "exception", now)]
  /\ UNCHANGED <<now, remote, db, elems, loc>>

Tick ==
  /\ now < MaxTime
  /\ now' = now + 1
  /\ UNCHANGED <<remote, db, elems, pc, loc, hist>>

\* ---------------------------------------------- createOrUpdateVideoPlaylist
\* the row of the url destroyed and created anew
SavePlaylist_DestroyCreate(d, playlistAttributes, t) ==
  upsert(destroyRow(d, playlistAttributes.url), playlistAttributes, t)

\* line 135: the row is written by an upsert
SavePlaylist(d, playlistAttributes, t) == upsert(d, playlistAttributes, t)

\* attributes, the attributed actor, then the upsert of the playlist row
Upsert(p) ==
  /\ pc[p] = "upsert"
  /\ LET playlistObject == loc[p].playlistObject
         byAccount == loc[p].instance.ownerAccountId
         a == UpsertAttributes(playlistObject, byAccount, playlistObject.to)
     IN /\ db' = SavePlaylist(db, a, now)
        /\ loc' = [loc EXCEPT ![p].playlist = a.url]
  /\ pc' = [pc EXCEPT ![p] = "crawl"]
  /\ UNCHANGED <<now, remote, elems, hist>>

\* getOrCreateActorAndServerAndModel rejects
ActorFails(p) ==
  /\ pc[p] = "upsert"
  /\ Len(loc[p].playlistObject.attributedTo) = 1
  /\ pc' = [pc EXCEPT ![p] = "catch"]
  /\ hist' = [hist EXCEPT ![p].actorFailed = TRUE]
  /\ UNCHANGED <<now, remote, db, elems, loc>>

\* the upsert rejects
UpsertFails(p) ==
  /\ pc[p] = "upsert"
  /\ pc' = [pc EXCEPT ![p] = "catch"]
  /\ UNCHANGED <<now, remote, db, elems, loc, hist>>

\* what follows the crawl: the thumbnail, unless nothing was gathered
AfterCrawl(accItems) == IF Len(accItems) # 0 THEN "thumbnail" ELSE "resolve"

\* crawlCollectionPage gathers the item urls of the remote collection, one of
\* collections
CrawlOf(p, collections) ==
  /\ pc[p] = "crawl"
  /\ \E accItems \in collections :
       /\ loc' = [loc EXCEPT ![p].accItems = accItems]
       /\ pc' = [pc EXCEPT ![p] = AfterCrawl(accItems)]
  /\ UNCHANGED <<now, remote, db, elems, hist>>

Crawl(p) == CrawlOf(p, Collections)

CrawlThrows(p) ==
  /\ pc[p] = "crawl"
  /\ pc' = [pc EXCEPT ![p] = "catch"]
  /\ UNCHANGED <<now, remote, db, elems, loc, hist>>

\* generateThumbnailFromUrl inside its own try: icon.url of a missing icon throws,
\* downloadImage may reject; both are logged and the call goes on
generateThumbnailFromUrl(icon, downloadOk) ==
  IF icon = Undefined THEN "failed" ELSE IF downloadOk THEN "ok" ELSE "failed"

\* the error of the thumbnail let out of createOrUpdateVideoPlaylist
AfterThumbnail_Rethrow(result) == IF result = "failed" THEN "catch" ELSE "resolve"

\* the catch around the thumbnail warns; resetVideoPlaylistElements follows
AfterThumbnail(result) == "resolve"

Thumbnail(p) ==
  /\ pc[p] = "thumbnail"
  /\ \E downloadOk \in BOOLEAN :
       LET result == generateThumbnailFromUrl(loc[p].playlistObject.icon, downloadOk)
       IN /\ hist' = [hist EXCEPT ![p].thumb = result]
          /\ pc' = [pc EXCEPT ![p] = AfterThumbnail(result)]
  /\ UNCHANGED <<now, remote, db, elems, loc>>

\* ------------------------------------------------ resetVideoPlaylistElements
InFlight(p) == {i \in DOMAIN loc[p].itemSt : loc[p].itemSt[i] = "inflight"}
Considered(p) == Range(loc[p].accItems)
Settled(p) == \A i \in Considered(p) : loc[p].itemSt[i] \in {"ok", "dropped"}

\* every mapper started at once
MayStart_AllAtOnce(running) == TRUE

\* Bluebird.map starts a mapper while fewer than the concurrency are running
MayStart(running) == running < CRAWL_REQUEST_CONCURRENCY

StartResolve(p, i) ==
  /\ pc[p] = "resolve"
  /\ i \in Considered(p)
  /\ loc[p].itemSt[i] = "todo"
  /\ MayStart(Cardinality(InFlight(p)))
  /\ loc' = [loc EXCEPT ![p].itemSt[i] = "inflight"]
  /\ UNCHANGED <<now, remote, db, elems, pc, hist>>

ElementBodies(i) ==
  {ElementObject(i, "a"), ElementObject(i, "b"), Undefined, [type |-> "Note", id |-> ElementUrl(i)]}

\* the try block of the mapper: fetch, validate, check the host, resolve the video
ResolveElement(elementUrl, fetchOk, body, videoOk) ==
  IF ~fetchOk THEN "dropped"
  ELSE IF ~isPlaylistElementObjectValid(body) THEN "dropped"
  ELSE IF checkUrlsSameHost(body.id, elementUrl) # TRUE THEN "dropped"
  ELSE IF ~videoOk THEN "dropped"
  ELSE "ok"

\* an item the remote serves well: fetched, valid, of its own host, video resolved
Resolvable(elementUrl, fetchOk, body, videoOk) ==
  /\ fetchOk
  /\ isPlaylistElementObjectValid(body)
  /\ checkUrlsSameHost(body.id, elementUrl)
  /\ videoOk

\* the candidate numbered by the order of completion
Push_Renumber(elementsToCreate, element) ==
  Append(elementsToCreate, [element EXCEPT !.position = Len(elementsToCreate)])

\* elementsToCreate.push: the candidates stand in the order the mappers complete
Push(elementsToCreate, element) == Append(elementsToCreate, element)

\* the mapper lets the error out: the first failed item ends the map
AfterElement_Rethrow(outcome) == IF outcome = "dropped" THEN "catch" ELSE "resolve"

\* the catch of the mapper logs and lets the map go on
AfterElement(outcome) == "resolve"

ResolveItem(p, i) ==
  /\ pc[p] = "resolve"
  /\ loc[p].itemSt[i] = "inflight"
  /\ \E fetchOk \in BOOLEAN, body \in ElementBodies(i), videoOk \in BOOLEAN :
       LET outcome == ResolveElement(ElementUrl(i), fetchOk, body, videoOk)
           element == playlistElementObjectToDBAttributes(body, loc[p].playlist, i)
       IN /\ loc' = [loc EXCEPT ![p].itemSt[i] = outcome,
                                ![p].elementsToCreate =
                                   IF outcome = "ok" THEN Push(@, element) ELSE @]
          /\ pc' = [pc EXCEPT ![p] = AfterElement(outcome)]
          /\ hist' = [hist EXCEPT ![p].resolved =
                         IF Resolvable(ElementUrl(i), fetchOk, body, videoOk)
                         THEN @ \cup {i} ELSE @]
  /\ UNCHANGED <<now, remote, db, elems>>

\* deleteAllOf run outside the transaction
VisibleAfterDelete_NoTransaction(es, deleted) == es \ deleted

\* the committed table while a transaction has deleted rows and not committed
VisibleAfterDelete(es, deleted) == es
\* the committed table while a transaction has inserted a row and not committed
VisibleAfterInsert(es, element) == es
\* the delete left out: the new elements are added to the old ones
Commit_NoDelete(es, deleted, inserted) == es \cup inserted

\* the committed table once the transaction commits
Commit(es, deleted, inserted) == (es \ deleted) \cup inserted

\* the map is over: the transaction begins with deleteAllOf
TxDelete(p) ==
  /\ pc[p] = "resolve"
  /\ Settled(p)
  /\ LET deleted == ElementsOf(elems, loc[p].playlist)
     IN /\ loc' = [loc EXCEPT ![p].txDel = deleted, ![p].txIns = <<>>]
        /\ elems' = VisibleAfterDelete(elems, deleted)
  /\ pc' = [pc EXCEPT ![p] = "txInsert"]
  /\ UNCHANGED <<now, remote, db, hist>>

TxInsert(p) ==
  /\ pc[p] = "txInsert"
  /\ Len(loc[p].txIns) < Len(loc[p].elementsToCreate)
  /\ loc[p].playlist \in DOMAIN db
  /\ LET element == loc[p].elementsToCreate[Len(loc[p].txIns) + 1]
     IN /\ loc' = [loc EXCEPT ![p].txIns = Append(@, element)]
        /\ elems' = VisibleAfterInsert(elems, element)
  /\ UNCHANGED <<now, remote, db, pc, hist>>

\* a create rejects: the transaction rolls back and the error leaves the call
TxInsertFails(p) ==
  /\ pc[p] = "txInsert"
  /\ Len(loc[p].txIns) < Len(loc[p].elementsToCreate)
  /\ loc' = [loc EXCEPT ![p].txDel = {}, ![p].txIns = <<>>]
  /\ pc' = [pc EXCEPT ![p] = "catch"]
  /\ hist' = [hist EXCEPT ![p].txFailed = TRUE]
  /\ UNCHANGED <<now, remote, db, elems>>

\* what the caller of createOrUpdateVideoPlaylist returns once it has resolved
ReturnOf(caller) == IF caller = "refresh" THEN "videoPlaylist" ELSE "undefined"

\* the rows a delete still removes once another transaction has committed: the rows
\* that one inserted are new rows, which the delete did not see
StillDeleted(deleted, inserted) == deleted \ inserted

\* the transaction commits; refreshVideoPlaylistIfNeeded returns videoPlaylist, the
\* mapper of createAccountPlaylists returns what createOrUpdateVideoPlaylist did
TxCommit(p) ==
  /\ pc[p] = "txInsert"
  /\ Len(loc[p].txIns) = Len(loc[p].elementsToCreate)
  /\ elems' = Commit(elems, loc[p].txDel, Range(loc[p].txIns))
  /\ loc' = [q \in DOMAIN loc |->
              IF q # p /\ pc[q] = "txInsert"
              THEN [loc[q] EXCEPT !.txDel = StillDeleted(@, Range(loc[p].txIns))]
              ELSE loc[q]]
  /\ pc' = [pc EXCEPT ![p] = "done"]
  /\ hist' = [hist EXCEPT ![p] = Finish(@, "reconciled", ReturnOf(loc[p].caller), now)]
  /\ UNCHANGED <<now, remote, db>>

\* ---------------------------------------------------------- specifications
Refresh(p) ==
  \/ \E u \in PlaylistUrls : Start(p, u)
  \/ FetchManifest(p)
  \/ FetchThrows(p)
  \/ Destroy(p)
  \/ RefreshInvalid(p)
  \/ Upsert(p)
  \/ ActorFails(p)
  \/ UpsertFails(p)
  \/ Crawl(p)
  \/ CrawlThrows(p)
  \/ Thumbnail(p)
  \/ \E i \in Items : StartResolve(p, i)
  \/ \E i \in Items : ResolveItem(p, i)
  \/ TxDelete(p)
  \/ TxInsert(p)
  \/ TxInsertFails(p)
  \/ TxCommit(p)
  \/ Catch(p)

\* a write of the refresh itself (destroy, setAsRefreshed) rejects
WriteFails(p) ==
  \/ DestroyFails(p)
  \/ RefreshInvalidFails(p)
  \/ CatchFails(p)

Next == Tick \/ \E p \in Procs : Refresh(p)

Spec == Init /\ [][Next]_vars

NextDbFail == Next \/ \E p \in Procs : WriteFails(p)

SpecDbFail == Init /\ [][NextDbFail]_vars

\* --------------------------------------------------- createAccountPlaylists
\* the account whose playlists are fetched, as createOrUpdateVideoPlaylist reads it
Account == OldRow

\* doesPlaylistExist of the playlist model
doesPlaylistExist(d, playlistUrl) == playlistUrl \in DOMAIN d

\* a mapper of createAccountPlaylists begins: a playlist that exists is left alone
StartAccount(p, playlistUrl) ==
  /\ pc[p] \in {"idle", "done"}
  /\ loc' = [loc EXCEPT ![p] = [NoLoc EXCEPT !.caller = "account",
                                               !.videoPlaylist = playlistUrl,
                                               !.instance = Account]]
  /\ LET h == [NoHist EXCEPT !.preDb = db, !.preElems = elems, !.startAt = now,
                             !.prev = Previous(p)]
     IN IF doesPlaylistExist(db, playlistUrl) = TRUE
        THEN /\ pc' = [pc EXCEPT ![p] = "done"]
             /\ hist' = [hist EXCEPT ![p] = Finish(h, "exists", "undefined", now)]
        ELSE /\ pc' = [pc EXCEPT ![p] = "accountFetch"]
             /\ hist' = [hist EXCEPT ![p] = h]
  /\ UNCHANGED <<now, remote, db, elems>>

\* the body is only validated: the mapper throws on a body that is no playlist object
AfterAccountFetch(body) == IF ~isPlaylistObjectValid(body) THEN "catch" ELSE "upsert"

\* doRequest answers with a body; the status is not read
AccountFetch(p) ==
  /\ pc[p] = "accountFetch"
  /\ \E body \in {remote} \cup InvalidBodies \cup {Undefined} :
       /\ pc' = [pc EXCEPT ![p] = AfterAccountFetch(body)]
       /\ loc' = [loc EXCEPT ![p].playlistObject = body]
       /\ hist' = [hist EXCEPT ![p].fetch = "answered",
                               ![p].bodyOk = Acceptable(body, loc[p].videoPlaylist)]
  /\ UNCHANGED <<now, remote, db, elems>>

AccountFetchThrows(p) ==
  /\ pc[p] = "accountFetch"
  /\ pc' = [pc EXCEPT ![p] = "catch"]
  /\ hist' = [hist EXCEPT ![p].fetch = "threw"]
  /\ UNCHANGED <<now, remote, db, elems, loc>>

\* the catch of the mapper only warns
AccountCatch(p) ==
  /\ pc[p] = "catch"
  /\ loc[p].caller = "account"
  /\ pc' = [pc EXCEPT ![p] = "done"]
  /\ hist' = [hist EXCEPT ![p] = Finish(@, "caught", "undefined", now)]
  /\ UNCHANGED <<now, remote, db, elems, loc>>

\* createOrUpdateVideoPlaylist and resetVideoPlaylistElements but for the crawl,
\* whoever called
AroundCrawl(p) ==
  \/ Upsert(p)
  \/ ActorFails(p)
  \/ UpsertFails(p)
  \/ CrawlThrows(p)
  \/ Thumbnail(p)
  \/ \E i \in Items : StartResolve(p, i)
  \/ \E i \in Items : ResolveItem(p, i)
  \/ TxDelete(p)
  \/ TxInsert(p)
  \/ TxInsertFails(p)
  \/ TxCommit(p)

AccountPlaylists(p) ==
  \/ \E playlistUrl \in PlaylistUrls : StartAccount(p, playlistUrl)
  \/ AccountFetch(p)
  \/ AccountFetchThrows(p)
  \/ AccountCatch(p)
  \/ Crawl(p)
  \/ AroundCrawl(p)

NextAccount == \E p \in Procs : AccountPlaylists(p)

SpecAccount == Init /\ [][NextAccount]_vars

\* ------------------------------------------------------- concurrent calls
\* two callers at once: each makes one call, a refresh or a mapper of
\* createAccountPlaylists, and the steps of the two interleave at every await;
\* each crawl finds a collection of one item at most
Callers == {"w1", "w2"}
ShortCollections == {accItems \in Collections : Len(accItems) <= 1}
CrawlShort(p) == CrawlOf(p, ShortCollections)

InitConc ==
  /\ now = 2
  /\ remote \in {m \in PlaylistObjects : m.to = <<PUBLIC_AUDIENCE>> /\ m.id.host = "a"}
  /\ db = [u \in {Url("a", 1)} |-> OldRow]
  /\ elems = {OldElement(u, i) : u \in DOMAIN db, i \in {0, 1}}
  /\ pc = [p \in Callers |-> "idle"]
  /\ loc = [p \in Callers |-> NoLoc]
  /\ hist = [p \in Callers |-> NoHist]

StartOnce(p, u) == pc[p] = "idle" /\ Start(p, u)
AccountOnce(p, playlistUrl) == pc[p] = "idle" /\ StartAccount(p, playlistUrl)

NextConc ==
  \E p \in Callers :
    \/ \E u \in PlaylistUrls : StartOnce(p, u)
    \/ \E playlistUrl \in PlaylistUrls : AccountOnce(p, playlistUrl)
    \/ FetchManifest(p)
    \/ FetchThrows(p)
    \/ Destroy(p)
    \/ RefreshInvalid(p)
    \/ Catch(p)
    \/ AccountFetch(p)
    \/ AccountFetchThrows(p)
    \/ AccountCatch(p)
    \/ CrawlShort(p)
    \/ AroundCrawl(p)

SpecConc == InitConc /\ [][NextConc]_vars

\* ------------------------------------------------- crawlCollectionPage alone
\* the crawl of createOrUpdateVideoPlaylist page by page: the root of the collection,
\* then the page its first pointer names and the pages the next pointers name
PageItems == {<<>>, <<1>>, <<2>>}

\* the ceiling left out: the walk follows next pointers as long as there are any
MayFetchPage_NoCeiling(nextLink, i) == nextLink

\* the walk goes on while a page is named and the ceiling is not reached
MayFetchPage(nextLink, i) == nextLink /\ i < FETCH_PAGE_LIMIT

\* the handler of lines 138-142: the items of a page are added to those gathered
Gather(accItems, items) == accItems \o items

\* the root of the collection is fetched: it names a first page or none
CrawlRoot(p) ==
  /\ pc[p] = "crawl"
  /\ \E first \in BOOLEAN :
       loc' = [loc EXCEPT ![p].nextLink = first, ![p].pages = 0, ![p].accItems = <<>>]
  /\ pc' = [pc EXCEPT ![p] = "crawlPage"]
  /\ UNCHANGED <<now, remote, db, elems, hist>>

\* a page is fetched and handed to the handler; it names a next page or none
CrawlPage(p) ==
  /\ pc[p] = "crawlPage"
  /\ MayFetchPage(loc[p].nextLink, loc[p].pages)
  /\ \E items \in PageItems, next \in BOOLEAN :
       /\ loc' = [loc EXCEPT ![p].nextLink = next, ![p].pages = @ + 1,
                              ![p].accItems = Gather(@, items)]
       /\ hist' = [hist EXCEPT ![p].gathered = @ \o items]
  /\ UNCHANGED <<now, remote, db, elems, pc>>

\* the request of a page rejects
CrawlPageThrows(p) ==
  /\ pc[p] = "crawlPage"
  /\ MayFetchPage(loc[p].nextLink, loc[p].pages)
  /\ pc' = [pc EXCEPT ![p] = "catch"]
  /\ UNCHANGED <<now, remote, db, elems, loc, hist>>

\* no page is left to fetch: createOrUpdateVideoPlaylist goes on with accItems
CrawlEnd(p) ==
  /\ pc[p] = "crawlPage"
  /\ ~MayFetchPage(loc[p].nextLink, loc[p].pages)
  /\ pc' = [pc EXCEPT ![p] = AfterCrawl(loc[p].accItems)]
  /\ UNCHANGED <<now, remote, db, elems, loc, hist>>

\* createOrUpdateVideoPlaylist after its upsert (line 135)
InitCrawl ==
  /\ now = 2
  /\ remote \in {m \in PlaylistObjects : m.id = Url("a", 1)}
  /\ db = upsert([u \in {Url("a", 1)} |-> OldRow],
                 UpsertAttributes(remote, OldRow.ownerAccountId, remote.to), now)
  /\ elems = {OldElement(Url("a", 1), i) : i \in {0, 1}}
  /\ pc = [p \in Procs |-> "crawl"]
  /\ loc = [p \in Procs |-> [NoLoc EXCEPT !.playlistObject = remote]]
  /\ hist = [p \in Procs |->
               [NoHist EXCEPT !.preDb = [u \in {Url("a", 1)} |-> OldRow],
                              !.preElems = elems, !.startAt = now,
                              !.fetch = "answered", !.bodyOk = TRUE]]

NextCrawl ==
  \E p \in Procs :
    \/ CrawlRoot(p)
    \/ CrawlPage(p)
    \/ CrawlPageThrows(p)
    \/ CrawlEnd(p)

SpecCrawl == InitCrawl /\ [][NextCrawl]_vars

\* ---------------------------------------- resetVideoPlaylistElements alone
\* createOrUpdateVideoPlaylist after its crawl (line 142): the row is upserted, the
\* collection gathered, over a collection of up to MapItems items
MapCollections == {SeqOfSet(S) : S \in SUBSET (1..MapItems)}

InitMap ==
  /\ now = 2
  /\ remote \in {m \in PlaylistObjects : m.id = Url("a", 1)}
  /\ db = upsert([u \in {Url("a", 1)} |-> OldRow],
                 UpsertAttributes(remote, OldRow.ownerAccountId, remote.to), now)
  /\ elems = {OldElement(Url("a", 1), i) : i \in {0, 1}}
  /\ \E accItems \in MapCollections :
       /\ pc = [p \in Procs |-> AfterCrawl(accItems)]
       /\ loc = [p \in Procs |->
                  [NoLoc EXCEPT !.playlistObject = remote, !.accItems = accItems,
                                !.itemSt = [i \in 1..MapItems |-> "todo"]]]
  /\ hist = [p \in Procs |->
               [NoHist EXCEPT !.preDb = [u \in {Url("a", 1)} |-> OldRow],
                              !.preElems = elems, !.startAt = now,
                              !.fetch = "answered", !.bodyOk = TRUE]]

NextMap ==
  \E p \in Procs :
    \/ Thumbnail(p)
    \/ \E i \in 1..MapItems : StartResolve(p, i)
    \/ \E i \in 1..MapItems : ResolveItem(p, i)
    \/ TxDelete(p)
    \/ TxInsert(p)
    \/ TxInsertFails(p)
    \/ TxCommit(p)
    \/ Catch(p)

SpecMap == InitMap /\ [][NextMap]_vars

\* ------------------------------------------------------------- properties
Running(p) == pc[p] # "idle"
Done(p) == pc[p] = "done"
\* the playlist the call was given, as the tables held it when the call began
Given(p) == loc[p].videoPlaylist
WasOutdated(p) == isOutdated(hist[p].preDb[Given(p)], hist[p].startAt)
\* the tables as the call found them, but for the refresh mark of its playlist
MarkedOnly(p) ==
  /\ Given(p) \in DOMAIN db
  /\ db = [hist[p].preDb EXCEPT ![Given(p)].lastRefreshedAt = hist[p].endAt]
  /\ elems = hist[p].preElems

\* C1: a call on a playlist that is not outdated is over at once: it returns that
\* playlist, has issued no fetch, and the playlist rows and the elements are as it
\* found them.
C1_FreshIsUntouched ==
  \A p \in Procs :
    (Running(p) /\ ~WasOutdated(p)) =>
      /\ Done(p)
      /\ hist[p].ret = "videoPlaylist"
      /\ hist[p].fetch = "none"
      /\ db = hist[p].preDb
      /\ elems = hist[p].preElems

C1_Witness ==
  \E p \in Procs :
    /\ Done(p) /\ ~WasOutdated(p)
    /\ hist[p].startAt > hist[p].preDb[Given(p)].lastRefreshedAt
    /\ ElementsOf(elems, Given(p)) # {}

\* C2: once a call whose manifest fetch was answered with status 404 is over, the
\* playlist row and all its elements are gone and the call has returned undefined,
\* whatever the body of the answer was.
C2_NotFoundDeletes ==
  \A p \in Procs :
    (Done(p) /\ hist[p].notFound) =>
      /\ Given(p) \notin DOMAIN db
      /\ ElementsOf(elems, Given(p)) = {}
      /\ hist[p].ret = "undefined"

C2_Witness ==
  \E p \in Procs :
    /\ Done(p) /\ hist[p].notFound /\ ~hist[p].bodyOk
    /\ ElementsOf(hist[p].preElems, Given(p)) # {}
    /\ Given(p) \notin DOMAIN db

\* C3: once a call whose manifest fetch was answered with a status other than 404 and
\* a body that fails the validation or the same-host check is over, the playlist still
\* exists, its columns and every element are as before, and lastRefreshedAt is the
\* time of the return, so the playlist is not outdated.
C3_InvalidBodyMarksOnly ==
  \A p \in Procs :
    (Done(p) /\ hist[p].fetch = "answered" /\ ~hist[p].notFound /\ ~hist[p].bodyOk) =>
      /\ MarkedOnly(p)
      /\ ~isOutdated(db[Given(p)], hist[p].endAt)
      /\ hist[p].ret = "videoPlaylist"

C3_Witness ==
  \E p \in Procs :
    /\ Done(p) /\ hist[p].fetch = "answered" /\ ~hist[p].notFound /\ ~hist[p].bodyOk
    /\ hist[p].preDb[Given(p)].lastRefreshedAt < hist[p].endAt
    /\ ElementsOf(elems, Given(p)) # {}

\* C4: once a call that fetched a valid manifest and reconciled it is over,
\* lastRefreshedAt of its playlist is the time of the return, so the playlist is not
\* outdated and a call repeated at once fetches nothing.
C4_ReconcileMarksRefreshed ==
  \A p \in Procs :
    (Done(p) /\ hist[p].path = "reconciled") =>
      /\ Given(p) \in DOMAIN db
      /\ db[Given(p)].lastRefreshedAt = hist[p].endAt
      /\ ~isOutdated(db[Given(p)], hist[p].endAt)

\* after a fetch that threw, only the refresh mark of the playlist has changed
C5_Kept ==
  \A p \in Procs : (Done(p) /\ hist[p].fetch = "threw") => MarkedOnly(p)

\* a step from that return to the fetch of the next call for the same playlist
C5_NoFetchStep ==
  \A p \in Procs :
    (Done(p) /\ hist[p].fetch = "threw" /\ pc'[p] = "fetch"
       /\ loc'[p].videoPlaylist = Given(p)) =>
      now - hist[p].endAt > REFRESH_INTERVAL

\* C5: once a call whose manifest fetch threw is over, the playlist rows and the
\* elements are as before but for lastRefreshedAt of its playlist, which is the time
\* of the return; and the next call for that playlist goes to the fetch only when
\* more than the refresh interval has passed since that return.
C5_TransientErrorBacksOff == [](C5_Kept) /\ [][C5_NoFetchStep]_vars

C5_Witness ==
  \E p \in Procs :
    /\ Done(p) /\ hist[p].fetch = "threw"
    /\ hist[p].preDb[Given(p)].lastRefreshedAt < hist[p].endAt
    /\ hist[p].endAt + REFRESH_INTERVAL < MaxTime
    /\ ElementsOf(elems, Given(p)) # {}

\* C6: a playlist row that a call found is missing only when the manifest fetch of
\* that call was answered with status 404: after a fresh playlist, an invalid body,
\* another error status, a valid manifest or an exception the row is still there.
C6_OnlyNotFoundRemoves ==
  \A p \in Procs :
    Running(p) =>
      \A u \in DOMAIN hist[p].preDb : u \notin DOMAIN db => (u = Given(p) /\ hist[p].notFound)

C6_Witness ==
  \E p \in Procs :
    /\ Done(p) /\ hist[p].notFound /\ hist[p].ret = "undefined"
    /\ DOMAIN db # DOMAIN hist[p].preDb

\* C7: a call never ends with an exception: whatever fails, a fetch, a validation, a
\* resolution or a write (the delete and the refresh mark included), it returns the
\* playlist or undefined.
C7_NeverThrows ==
  \A p \in Procs : Done(p) => hist[p].ret \in {"videoPlaylist", "undefined"}

\* the manifest of the call was accepted: the call reconciles
Reconciles(p) == Running(p) /\ hist[p].fetch = "answered" /\ ~hist[p].notFound /\ hist[p].bodyOk
Committed(p) == Done(p) /\ hist[p].path = "reconciled"
Candidates(p) == Range(loc[p].elementsToCreate)

\* C8: from the start of a reconciliation on, a reader of the element table finds
\* for every playlist either the whole set of before or, once the transaction has
\* committed, the whole set of the candidates; never the set emptied by the delete,
\* never a part of the inserts; and when a create fails the set of before remains.
C8_ReadersSeeOldOrNew ==
  \A p \in Procs :
    Reconciles(p) =>
      /\ \A u \in PlaylistUrls :
           \/ ElementsOf(elems, u) = ElementsOf(hist[p].preElems, u)
           \/ /\ Committed(p)
              /\ u = loc[p].playlist
              /\ ElementsOf(elems, u) = Candidates(p)
      /\ hist[p].txFailed => elems = hist[p].preElems

\* in the middle of the inserts of a transaction that replaces a non-empty set
C8_Witness ==
  \E p \in Procs :
    /\ pc[p] = "txInsert"
    /\ Len(loc[p].txIns) = 1
    /\ Len(loc[p].elementsToCreate) = 2
    /\ loc[p].txDel # {}
    /\ loc[p].txDel # Candidates(p)
    /\ ElementsOf(elems, loc[p].playlist) = loc[p].txDel

\* the candidate the remote item i gives for playlist u
CandidateOf(i, u) == playlistElementObjectToDBAttributes(ElementObject(i, "a"), u, i)

\* C9: once a reconciliation has committed, the elements of its playlist are the
\* candidates built in this call from the crawled items and nothing else: no element
\* of before remains unless it is a candidate again, and after an empty collection
\* the playlist has no element, while its name and description are the manifest's.
C9_ElementsMirrorCandidates ==
  \A p \in Procs :
    Committed(p) =>
      LET u == loc[p].playlist
      IN /\ ElementsOf(elems, u) = Candidates(p)
         /\ Candidates(p) = {CandidateOf(i, u) : i \in hist[p].resolved}
         /\ hist[p].resolved \subseteq Range(loc[p].accItems)
         /\ loc[p].accItems = <<>> => ElementsOf(elems, u) = {}
         /\ u \in DOMAIN db
         /\ db[u].name = loc[p].playlistObject.name
         /\ db[u].description = loc[p].playlistObject.content

\* an empty collection over a playlist that had elements and another name
C9_Witness ==
  \E p \in Procs :
    /\ Committed(p)
    /\ loc[p].accItems = <<>>
    /\ ElementsOf(hist[p].preElems, loc[p].playlist) # {}
    /\ ElementsOf(elems, loc[p].playlist) = {}
    /\ hist[p].preDb[loc[p].playlist].name # db[loc[p].playlist].name

\* C10: an item that fails (fetch, validation, host check or video resolution) is
\* dropped and the map goes on: the call reaches the catch block after the crawl only
\* through a failed transaction, and a committed set holds one element for each item
\* that resolved and none for the others.
C10_FailedItemsAreDropped ==
  \A p \in Procs :
    /\ (Reconciles(p) /\ pc[p] = "catch" /\ loc[p].accItems # <<>>) => hist[p].txFailed
    /\ Committed(p) =>
         /\ Settled(p)
         /\ {e.videoId : e \in ElementsOf(elems, loc[p].playlist)} = hist[p].resolved
         /\ Cardinality(ElementsOf(elems, loc[p].playlist)) = Cardinality(hist[p].resolved)
         /\ \A i \in Considered(p) \ hist[p].resolved : loc[p].itemSt[i] = "dropped"

\* one item failed, its sibling resolved and was committed
C10_Witness ==
  \E p \in Procs :
    /\ Committed(p)
    /\ Len(loc[p].accItems) = 2
    /\ Cardinality(hist[p].resolved) = 1
    /\ Cardinality(ElementsOf(elems, loc[p].playlist)) = 1

\* the place of x in the sequence s, counted from 0 as an array index is
IndexIn(s, x) == (CHOOSE k \in DOMAIN s : s[k] = x) - 1

\* C11: each element a reconciliation commits has as its position the position its
\* element object declares when it declares one, and otherwise its index in the order
\* of the candidates; a survivor keeps its position when a sibling is dropped.
C11_PositionDeclaredOrIndex ==
  \A p \in Procs :
    Committed(p) =>
      \A e \in ElementsOf(elems, loc[p].playlist) :
        e.position = IF DeclaredPosition(e.videoId) # NoPosition
                     THEN DeclaredPosition(e.videoId)
                     ELSE IndexIn(loc[p].elementsToCreate, e)

\* the call before this one reconciled the same manifest, and the remote resolves
\* to this one the items it resolved to that one
Repeated(p) ==
  /\ Committed(p)
  /\ hist[p].prev.committed
  /\ Range(hist[p].prev.order) = hist[p].resolved

\* C12: a reconciliation that follows a reconciliation of the same manifest, the
\* collection and the resolution of every item unchanged, leaves the element rows of
\* the playlist as the first left them: the same rows with the same positions, hence
\* the same count and the same order, in whatever order the mappers completed.
C12_ReconcileIsIdempotent ==
  \A p \in Procs :
    Repeated(p) =>
      /\ ElementsOf(elems, loc[p].playlist) = ElementsOf(hist[p].preElems, loc[p].playlist)
      /\ Cardinality(ElementsOf(elems, loc[p].playlist)) = Len(hist[p].prev.order)

\* two items resolved in both runs, pushed in one order in the first and in the other
\* order in the second
C12_Witness ==
  \E p \in Procs :
    /\ Repeated(p)
    /\ Len(hist[p].prev.order) = 2
    /\ Len(loc[p].elementsToCreate) = 2
    /\ hist[p].prev.order[1] # loc[p].elementsToCreate[1].videoId

\* no more than the concurrency in flight
C13_Bounded == \A p \in Procs : Cardinality(InFlight(p)) <= CRAWL_REQUEST_CONCURRENCY

\* a step that starts the resolution of an item
C13_StartsBelowLimit ==
  \A p \in Procs :
    \A i \in DOMAIN loc[p].itemSt :
      (loc[p].itemSt[i] = "todo" /\ loc'[p].itemSt[i] = "inflight") =>
        Cardinality(InFlight(p)) < CRAWL_REQUEST_CONCURRENCY

\* C13: in every reconciliation, however many items the crawl gathered, the number
\* of element resolutions in flight never exceeds CRAWL_REQUEST_CONCURRENCY, and the
\* resolution of an item starts only in a state where fewer than that are in flight.
C13_ConcurrencyIsBounded == [](C13_Bounded) /\ [][C13_StartsBelowLimit]_vars

\* the limit binds: as many in flight as allowed, and an item still waits
C13_Witness ==
  \E p \in Procs :
    /\ pc[p] = "resolve"
    /\ Cardinality(InFlight(p)) = CRAWL_REQUEST_CONCURRENCY
    /\ \E i \in Considered(p) : loc[p].itemSt[i] = "todo"

\* the call of p has upserted the manifest it fetched
Upserted(p) == pc[p] \in {"crawl", "thumbnail", "resolve", "txInsert"} \/ Committed(p)

\* C14: no manifest is persisted whose id is of another host than the url it was
\* fetched from, by refreshVideoPlaylistIfNeeded or by createAccountPlaylists, and
\* no element row is persisted whose id is of another host than the url of its item.
C14_NoForeignHostPersisted ==
  /\ \A p \in Procs :
       Upserted(p) => checkUrlsSameHost(loc[p].playlistObject.id, loc[p].videoPlaylist)
  /\ \A e \in elems : checkUrlsSameHost(e.url, ElementUrl(e.videoId))

\* the channel the manifest attributes the playlist to: that of its one actor
AttributedChannel(playlistObject) ==
  IF Len(playlistObject.attributedTo) = 1
  THEN ActorVideoChannel(playlistObject.attributedTo[1])
  ELSE Null

\* C15: the row upserted from a manifest with exactly one attributed actor that has
\* a channel refers to that channel; with no actor, several actors or an actor
\* without channel it has no channel; and when the resolution of the actor fails the
\* reconciliation goes on all the same and upserts the row without channel.
C15_ChannelOrAccountOwned ==
  \A p \in Procs :
    /\ Upserted(p) =>
         /\ loc[p].playlist \in DOMAIN db
         /\ db[loc[p].playlist].videoChannelId = AttributedChannel(loc[p].playlistObject)
    /\ hist[p].actorFailed =>
         /\ pc[p] # "catch"
         /\ loc[p].playlist \in DOMAIN db
         /\ db[loc[p].playlist].videoChannelId = Null

\* C16: a reconciliation attempts the thumbnail only when the element set it commits
\* is not empty: after an empty collection, and after a collection of which every
\* item failed, it has committed no element and has made no thumbnail attempt.
C16_ThumbnailOnlyForElements ==
  \A p \in Procs :
    (Committed(p) /\ ElementsOf(elems, loc[p].playlist) = {}) => hist[p].thumb = "none"

\* C17: a thumbnail that fails, the image not downloaded or the manifest without
\* icon, does not fail the reconciliation: the call reaches the catch block only
\* through a failed transaction, and otherwise ends as a reconciliation does, the
\* elements of the playlist replaced by the candidates of the items that resolved.
C17_ThumbnailFailureIsHarmless ==
  \A p \in Procs :
    hist[p].thumb = "failed" =>
      /\ (pc[p] = "catch" \/ hist[p].path = "caught") => hist[p].txFailed
      /\ (Done(p) /\ ~hist[p].txFailed) =>
           /\ hist[p].path = "reconciled"
           /\ hist[p].ret = ReturnOf(loc[p].caller)
           /\ ElementsOf(elems, loc[p].playlist) =
                {CandidateOf(i, loc[p].playlist) : i \in hist[p].resolved}

\* a manifest without icon, and the elements replaced by a new, non-empty set
C17_Witness ==
  \E p \in Procs :
    /\ Committed(p)
    /\ hist[p].thumb = "failed"
    /\ loc[p].playlistObject.icon = Undefined
    /\ ElementsOf(elems, loc[p].playlist) # {}
    /\ ElementsOf(elems, loc[p].playlist) # ElementsOf(hist[p].preElems, loc[p].playlist)

\* C18: the privacy of a row the pipeline has upserted is PUBLIC exactly when the
\* audience of its manifest holds the public marker, at whatever place, and UNLISTED
\* otherwise; and no row is ever PRIVATE.
C18_PrivacyFromAudience ==
  /\ \A p \in Procs :
       Upserted(p) =>
         /\ loc[p].playlist \in DOMAIN db
         /\ db[loc[p].playlist].privacy =
              IF PUBLIC_AUDIENCE \in Range(loc[p].playlistObject.to)
              THEN "PUBLIC" ELSE "UNLISTED"
  /\ \A u \in DOMAIN db : db[u].privacy \in {"PUBLIC", "UNLISTED"}

\* an unlisted playlist made public by an audience that names the marker second
C18_Witness ==
  \E p \in Procs :
    /\ Upserted(p)
    /\ Len(loc[p].playlistObject.to) = 2
    /\ loc[p].playlistObject.to[2] = PUBLIC_AUDIENCE
    /\ hist[p].preDb[loc[p].playlist].privacy = "UNLISTED"
    /\ db[loc[p].playlist].privacy = "PUBLIC"

\* the step is the upsert of caller p
UpsertStep(p) == pc[p] = "upsert" /\ pc'[p] = "crawl"

\* a step of the playlist table, which the unique index keys by url: a row appears
\* only by an upsert and under the id of the manifest upserted; the upsert of an
\* unknown url adds that one row, the upsert of a known url adds none and keeps what
\* the manifest does not set; no other row changes
C19_Step ==
  /\ \A u \in DOMAIN db' \ DOMAIN db :
       \E p \in DOMAIN pc : UpsertStep(p) /\ u = loc[p].playlistObject.id
  /\ \A p \in DOMAIN pc :
       UpsertStep(p) =>
         LET u == loc[p].playlistObject.id
         IN /\ DOMAIN db' = DOMAIN db \cup {u}
            /\ Cardinality(DOMAIN db') =
                 Cardinality(DOMAIN db) + (IF u \in DOMAIN db THEN 0 ELSE 1)
            /\ u \in DOMAIN db => db'[u].lastRefreshedAt = db[u].lastRefreshedAt
            /\ \A v \in DOMAIN db \ {u} : db'[v] = db[v]

BothCommitted(p, q) ==
  /\ p # q
  /\ Committed(p) /\ Committed(q)
  /\ loc[p].caller = "refresh" /\ loc[q].caller = "refresh"
  /\ Given(p) = Given(q)
  /\ loc[p].playlist = loc[q].playlist

\* C20: when two refresh cycles of the same playlist have interleaved and both have
\* completed, the elements of the playlist are the candidates of one of the two
\* cycles: not a union of both, not a part of each.
C20_SingleCrawlCommitted ==
  \A p, q \in DOMAIN pc :
    BothCommitted(p, q) =>
      \/ ElementsOf(elems, loc[p].playlist) = Candidates(p)
      \/ ElementsOf(elems, loc[p].playlist) = Candidates(q)

\* the crawl of p is over and createOrUpdateVideoPlaylist has gone on
Crawled(p) == pc[p] \in {"thumbnail", "resolve"}

\* no more pages fetched than the ceiling, and what the call goes on with is what
\* the fetched pages held
C21_Bounded ==
  \A p \in Procs :
    /\ loc[p].pages <= FETCH_PAGE_LIMIT
    /\ Crawled(p) => loc[p].accItems = hist[p].gathered

\* a step of the walk fetches one more page, and at the ceiling the walk ends,
\* a next pointer or not, and not by an exception
C21_Step ==
  \A p \in Procs :
    /\ (pc[p] = "crawlPage" /\ pc'[p] = "crawlPage") => loc'[p].pages = loc[p].pages + 1
    /\ (pc[p] = "crawlPage" /\ loc[p].pages = FETCH_PAGE_LIMIT) => Crawled(p)'

\* C21: a crawl never fetches more pages than the page ceiling, and each of its steps
\* fetches one more, so it ends even when every page names a next one; at the ceiling
\* the reconciliation goes on with the items gathered so far.
C21_CrawlIsBounded == [](C21_Bounded) /\ [][C21_Step]_vars

\* the ceiling stopped a walk whose last page still named a next one
C21_Witness ==
  \E p \in Procs :
    /\ Crawled(p)
    /\ loc[p].pages = FETCH_PAGE_LIMIT
    /\ loc[p].nextLink
    /\ Len(loc[p].accItems) = FETCH_PAGE_LIMIT

\* C22: once a call that accepted the manifest and then met an exception (the actor,
\* the crawl, the element transaction) is over, the playlist rows and the elements
\* are as the call found them but for lastRefreshedAt of its playlist, as after an
\* invalid body.
C22_ExceptionKeepsContent ==
  \A p \in Procs :
    (Done(p) /\ hist[p].path = "caught" /\ hist[p].fetch = "answered" /\ hist[p].bodyOk) =>
      MarkedOnly(p)

\* the value refreshVideoPlaylistIfNeeded returns after a reconciliation: the instance
\* it was given, which createOrUpdateVideoPlaylist never touches
Returned(p) == loc[p].instance
Metadata(row) ==
  [name |-> row.name, description |-> row.description, privacy |-> row.privacy,
   videoChannelId |-> row.videoChannelId]

\* C23: the playlist a refresh returns after it reconciled a valid manifest carries
\* the name, description, privacy and channel of the row the reconciliation wrote,
\* not the values of before.
C23_ReturnsReconciledState ==
  \A p \in Procs :
    (Committed(p) /\ hist[p].ret = "videoPlaylist") =>
      Metadata(Returned(p)) = Metadata(db[loc[p].playlist])

\* the rows and the elements of the playlists other than u
OtherRows(d, u) == [v \in DOMAIN d \ {u} |-> d[v]]
OtherElements(es, u) == {e \in es : e.videoPlaylistId # u}

\* C24: a refresh of the playlist of url U never creates, changes or deletes the row
\* or an element of a playlist of another url, whatever id the manifest declares.
C24_OnlyOwnPlaylistWritten ==
  \A p \in Procs :
    (loc[p].caller = "refresh" /\ (Running(p) \/ Done(p))) =>
      /\ OtherRows(db, Given(p)) = OtherRows(hist[p].preDb, Given(p))
      /\ OtherElements(elems, Given(p)) = OtherElements(hist[p].preElems, Given(p))

\* C25: a mapper of createAccountPlaylists whose url exists issues no fetch, and no
\* mapper changes the row or the elements of a playlist that existed when it began;
\* a mapper that failed is over like any other and the next url is taken.
C25_ExistingPlaylistsUntouched ==
  \A p \in Procs :
    (loc[p].caller = "account" /\ (Running(p) \/ Done(p))) =>
      /\ doesPlaylistExist(hist[p].preDb, Given(p)) => hist[p].fetch = "none"
      /\ \A u \in DOMAIN hist[p].preDb :
           /\ doesPlaylistExist(db, u)
           /\ db[u] = hist[p].preDb[u]
           /\ ElementsOf(elems, u) = ElementsOf(hist[p].preElems, u)
      /\ hist[p].path = "caught" => ENABLED (\E u \in PlaylistUrls : StartAccount(p, u))

\* ================================================================ notifier
\* In the specifications of the notifier db holds the configuration of the instance
\* and the video row, elems the rows of the notification table, loc the locals of the
\* call of notify in progress and hist what that call did to the outside.
MaxUsers == 2

\* UserNotificationSettingValue: a mask of two bits
UserNotificationSettingValue == [NONE |-> 0, WEB |-> 1, EMAIL |-> 2]
SettingValues == 0..3

\* value & bit, for a bit of the mask
BitAnd(value, bit) == IF (value \div bit) % 2 = 1 THEN bit ELSE 0
\* what an if makes of a number; the false of isEmailEnabled is written 0
Truthy(x) == x # 0

isWebNotificationEnabled(value) == BitAnd(value, UserNotificationSettingValue.WEB)

isEmailEnabled_AnySetting(requiresEmailVerification, user, value) ==
  IF requiresEmailVerification = TRUE /\ user.emailVerified = FALSE THEN 0 ELSE value

isEmailEnabled(requiresEmailVerification, user, value) ==
  IF requiresEmailVerification = TRUE /\ user.emailVerified = FALSE
  THEN 0
  ELSE BitAnd(value, UserNotificationSettingValue.EMAIL)

\* the users a call may be given: user k of the list has id k, the setting of the
\* other notification is the complement of the one chosen
Email(id) == "u" \o ToString(id) \o "@a"
UserOptions == [emailVerified : BOOLEAN, setting : SettingValues]
UserOf(id, o, settingName) ==
  [id |-> id, email |-> Email(id), emailVerified |-> o.emailVerified,
   NotificationSetting |->
     [newVideoFromSubscription |->
        IF settingName = "newVideoFromSubscription" THEN o.setting ELSE 3 - o.setting,
      myVideoPublished |->
        IF settingName = "myVideoPublished" THEN o.setting ELSE 3 - o.setting]]
UserLists(n, settingName) ==
  UNION {{[k \in 1..m |-> UserOf(k, o[k], settingName)] : o \in [1..m -> UserOptions]} :
         m \in 0..n}

\* the settingGetter of the two calls of notify modelled
settingGetter(settingName, user) ==
  IF settingName = "newVideoFromSubscription"
  THEN user.NotificationSetting.newVideoFromSubscription
  ELSE user.NotificationSetting.myVideoPublished

NoVideo ==
  [id |-> 7, privacy |-> "PUBLIC", state |-> "PUBLISHED", waitTranscoding |-> FALSE,
   VideoBlacklist |-> FALSE, ScheduleVideoUpdate |-> FALSE]

\* the locals of notify and what the call did: the rows created, the notifications
\* pushed on the socket, the calls of emailSender
NoCall ==
  [trigger |-> "none", settingGetter |-> "newVideoFromSubscription",
   type |-> "NEW_VIDEO_FROM_SUBSCRIPTION", video |-> NoVideo, users |-> <<>>, i |-> 1,
   emails |-> <<>>]
NoEffects ==
  [created |-> <<>>, pushed |-> <<>>, sent |-> <<>>, threw |-> FALSE, lifted |-> {},
   owner |-> 0]

\* ------------------------------------------------------------------ notify
\* the notification notificationCreator creates for a user
Notification(user, type, video) == [userId |-> user.id, type |-> type, videoId |-> video.id]

\* one turn of the loop of notify: the web notification is created and pushed, then
\* the address is kept for the email
NotifyUser(p) ==
  /\ pc[p] = "notify"
  /\ loc[p].i <= Len(loc[p].users)
  /\ LET user == loc[p].users[loc[p].i]
         value == settingGetter(loc[p].settingGetter, user)
         notification == Notification(user, loc[p].type, loc[p].video)
     IN /\ IF Truthy(isWebNotificationEnabled(value))
           THEN /\ elems' = elems \cup {notification}
                /\ hist' = [hist EXCEPT ![p].created = Append(@, notification),
                                        ![p].pushed = Append(@, notification)]
           ELSE UNCHANGED <<elems, hist>>
        /\ loc' = [loc EXCEPT
                     ![p].i = @ + 1,
                     ![p].emails =
                       IF Truthy(isEmailEnabled(db.REQUIRES_EMAIL_VERIFICATION, user, value))
                       THEN Append(@, user.email)
                       ELSE @]
  /\ UNCHANGED <<now, remote, db, pc>>

\* notificationCreator rejects: notify rejects, the catch of the caller logs
NotifyUserThrows(p) ==
  /\ pc[p] = "notify"
  /\ loc[p].i <= Len(loc[p].users)
  /\ Truthy(isWebNotificationEnabled(settingGetter(loc[p].settingGetter,
                                                   loc[p].users[loc[p].i])))
  /\ pc' = [pc EXCEPT ![p] = "done"]
  /\ hist' = [hist EXCEPT ![p].threw = TRUE]
  /\ UNCHANGED <<now, remote, db, elems, loc>>

\* the loop is over: emailSender is called when there is an address
NotifyEnd(p) ==
  /\ pc[p] = "notify"
  /\ loc[p].i > Len(loc[p].users)
  /\ pc' = [pc EXCEPT ![p] = "done"]
  /\ hist' = [hist EXCEPT ![p].sent =
                 IF Len(loc[p].emails) # 0 THEN Append(@, loc[p].emails) ELSE @]
  /\ UNCHANGED <<now, remote, db, elems, loc>>

Notify(p) ==
  \/ NotifyUser(p)
  \/ NotifyUserThrows(p)
  \/ NotifyEnd(p)

\* a call of notify over any list of up to MaxUsers users, for either setting
InitNotify ==
  /\ now = 2
  /\ remote = Undefined
  /\ db \in [REQUIRES_EMAIL_VERIFICATION : BOOLEAN, video : {NoVideo}]
  /\ elems = {}
  /\ pc = [p \in Procs |-> "notify"]
  /\ \E settingName \in {"newVideoFromSubscription", "myVideoPublished"} :
       \E users \in UserLists(MaxUsers, settingName) :
         loc = [p \in Procs |-> [NoCall EXCEPT !.settingGetter = settingName,
                                                !.users = users]]
  /\ hist = [p \in Procs |-> NoEffects]

NextNotify == \E p \in Procs : Notify(p)

SpecNotify == InitNotify /\ [][NextNotify]_vars

\* ------------------------------------------------- the publication triggers
\* the early returns of the four entry points
awaitsTranscoding(video) == video.waitTranscoding /\ video.state # "PUBLISHED"

ReturnsOnNewVideo_Blacklisted(video) ==
  video.privacy # "PUBLIC" \/ video.state # "PUBLISHED"
ReturnsOnNewVideo(video) ==
  video.privacy # "PUBLIC" \/ video.state # "PUBLISHED" \/ video.VideoBlacklist

ReturnsAfterTranscoding_Scheduled(video) ==
  ~video.waitTranscoding \/ video.VideoBlacklist
ReturnsAfterTranscoding(video) ==
  ~video.waitTranscoding \/ video.VideoBlacklist \/ video.ScheduleVideoUpdate

ReturnsAfterScheduledUpdate(video) ==
  video.VideoBlacklist \/ awaitsTranscoding(video)

ReturnsAfterRemovedFromAutoBlacklist(video) ==
  video.ScheduleVideoUpdate \/ awaitsTranscoding(video)

\* a call begins: the effects of the call before are forgotten
Begin(p, trigger, settingName, type, video, users) ==
  /\ loc' = [loc EXCEPT ![p] = [NoCall EXCEPT !.trigger = trigger,
                                              !.settingGetter = settingName,
                                              !.type = type, !.video = video,
                                              !.users = users]]
  /\ UNCHANGED <<now, remote, elems>>

Effects(h, lifted, owner) == [NoEffects EXCEPT !.lifted = lifted, !.owner = h.owner + owner]

\* notifyOnNewVideo with the video as the tables hold it: notifySubscribersOfNewVideo
\* lists the subscribers of the channel and calls notify
notifyOnNewVideo(p) ==
  /\ pc[p] \in {"idle", "done"}
  /\ LET video == db.video
     IN \E users \in UserLists(1, "newVideoFromSubscription") :
          /\ Begin(p, "notifyOnNewVideo", "newVideoFromSubscription",
                   "NEW_VIDEO_FROM_SUBSCRIPTION", video,
                   IF ReturnsOnNewVideo(video) THEN <<>> ELSE users)
          /\ pc' = [pc EXCEPT ![p] = IF ReturnsOnNewVideo(video) THEN "done" ELSE "notify"]
          /\ hist' = [hist EXCEPT ![p] = Effects(@, @.lifted, 0)]
          /\ UNCHANGED db

\* notifyOwnedVideoHasBeenPublished: a video with no local user has no one to notify
OwnedVideoHasBeenPublished(p, trigger, video, returns, lifted) ==
  \E users \in UserLists(1, "myVideoPublished") :
    /\ Begin(p, trigger, "myVideoPublished", "MY_VIDEO_PUBLISHED", video,
             IF returns THEN <<>> ELSE users)
    /\ pc' = [pc EXCEPT ![p] = IF returns \/ Len(users) = 0 THEN "done" ELSE "notify"]
    /\ hist' = [hist EXCEPT ![p] = Effects(@, lifted, IF returns THEN 0 ELSE 1)]

\* what lifts a blocker, each once: the transcoding ends, the scheduled update is
\* applied, the video leaves the blacklist; the trigger is then called with the video
\* as the tables hold it
Lift(video, blocker) ==
  IF blocker = "transcoding" THEN [video EXCEPT !.state = "PUBLISHED"]
  ELSE IF blocker = "schedule"
       THEN [video EXCEPT !.ScheduleVideoUpdate = FALSE, !.privacy = "PUBLIC"]
       ELSE [video EXCEPT !.VideoBlacklist = FALSE]

notifyOnVideoPublishedAfterTranscoding(p) ==
  /\ pc[p] \in {"idle", "done"}
  /\ "transcoding" \notin hist[p].lifted
  /\ db' = [db EXCEPT !.video = Lift(@, "transcoding")]
  /\ OwnedVideoHasBeenPublished(p, "notifyOnVideoPublishedAfterTranscoding", db'.video,
                                ReturnsAfterTranscoding(db'.video),
                                hist[p].lifted \cup {"transcoding"})

notifyOnVideoPublishedAfterScheduledUpdate(p) ==
  /\ pc[p] \in {"idle", "done"}
  /\ db.video.ScheduleVideoUpdate
  /\ db' = [db EXCEPT !.video = Lift(@, "schedule")]
  /\ OwnedVideoHasBeenPublished(p, "notifyOnVideoPublishedAfterScheduledUpdate", db'.video,
                                ReturnsAfterScheduledUpdate(db'.video),
                                hist[p].lifted \cup {"schedule"})

notifyOnVideoPublishedAfterRemovedFromAutoBlacklist(p) ==
  /\ pc[p] \in {"idle", "done"}
  /\ db.video.VideoBlacklist
  /\ db' = [db EXCEPT !.video = Lift(@, "blacklist")]
  /\ OwnedVideoHasBeenPublished(p, "notifyOnVideoPublishedAfterRemovedFromAutoBlacklist",
                                db'.video, ReturnsAfterRemovedFromAutoBlacklist(db'.video),
                                hist[p].lifted \cup {"blacklist"})

\* a video as it is uploaded: it waits for its transcoding or not, is on the
\* blacklist or not, has a publication scheduled or not
Videos ==
  {[NoVideo EXCEPT !.waitTranscoding = w,
                   !.state = IF w THEN "TO_TRANSCODE" ELSE "PUBLISHED",
                   !.VideoBlacklist = b, !.ScheduleVideoUpdate = s, !.privacy = v] :
     w \in BOOLEAN, b \in BOOLEAN, s \in BOOLEAN, v \in {"PUBLIC", "UNLISTED", "PRIVATE"}}

InitPublish ==
  /\ now = 2
  /\ remote = Undefined
  /\ db \in [REQUIRES_EMAIL_VERIFICATION : BOOLEAN,
              video : {video \in Videos : video.ScheduleVideoUpdate => video.privacy = "PRIVATE"}]
  /\ elems = {}
  /\ pc = [p \in Procs |-> "idle"]
  /\ loc = [p \in Procs |-> NoCall]
  /\ hist = [p \in Procs |-> NoEffects]

NextPublish ==
  \E p \in Procs :
    \/ notifyOnNewVideo(p)
    \/ notifyOnVideoPublishedAfterTranscoding(p)
    \/ notifyOnVideoPublishedAfterScheduledUpdate(p)
    \/ notifyOnVideoPublishedAfterRemovedFromAutoBlacklist(p)
    \/ Notify(p)

SpecPublish == InitPublish /\ [][NextPublish]_vars

\* what still keeps a video from being published
BlockersLeft(video) ==
  {b \in {"transcoding", "schedule", "blacklist"} :
     \/ b = "transcoding" /\ video.waitTranscoding /\ video.state = "TO_TRANSCODE"
     \/ b = "schedule" /\ video.ScheduleVideoUpdate
     \/ b = "blacklist" /\ video.VideoBlacklist}
\* the blockers lifted so far; the end of a transcoding the video did not wait for
\* lifts none
BlockersLifted(p) ==
  {b \in hist[p].lifted : b = "transcoding" => db.video.waitTranscoding}

C26_AtMostOnce ==
  \A p \in Procs :
    /\ hist[p].owner <= 1
    /\ hist[p].owner = 1 => BlockersLeft(db.video) = {}
    /\ (BlockersLeft(db.video) = {} /\ BlockersLifted(p) # {}) => hist[p].owner = 1
C26_Step ==
  \A p \in Procs :
    hist'[p].owner > hist[p].owner =>
      /\ BlockersLeft(db'.video) = {}
      /\ BlockersLeft(db.video) # {}

\* C26: of the three publication triggers only the one that finds no blocker left
\* (blacklist, scheduled update, transcoding awaited) sends the owner the
\* notification of the publication: in whatever order the blockers are lifted the
\* owner is notified once at most, when the last of them is lifted.
C26_OwnerNotifiedOnceAtLast == [](C26_AtMostOnce) /\ [][C26_Step]_vars

C26_Witness ==
  \E p \in Procs :
    /\ hist[p].owner = 1
    /\ BlockersLifted(p) = {"transcoding", "schedule", "blacklist"}
    /\ Len(hist[p].pushed) = 1
    /\ loc[p].type = "MY_VIDEO_PUBLISHED"

Notifiable(video) ==
  video.privacy = "PUBLIC" /\ video.state = "PUBLISHED" /\ ~video.VideoBlacklist

\* C27: a call of notifyOnNewVideo on a video that is not public, not published or
\* blacklisted never reaches notify: it creates no notification, pushes nothing on
\* the socket and sends no email; subscribers have a notification of a new video
\* only of a video that is public, published and not blacklisted.
C27_OnlyNotifiableVideos ==
  /\ \A p \in Procs :
       (loc[p].trigger = "notifyOnNewVideo" /\ ~Notifiable(loc[p].video)) =>
         /\ pc[p] = "done"
         /\ hist[p].created = <<>>
         /\ hist[p].pushed = <<>>
         /\ hist[p].sent = <<>>
  /\ \A n \in elems : n.type = "NEW_VIDEO_FROM_SUBSCRIPTION" => Notifiable(db.video)

C27_Witness ==
  \E p \in Procs :
    /\ loc[p].trigger = "notifyOnNewVideo"
    /\ pc[p] = "done"
    /\ loc[p].video.privacy = "PUBLIC" /\ loc[p].video.state = "PUBLISHED"
    /\ loc[p].video.VideoBlacklist
    /\ hist[p].created = <<>> /\ hist[p].sent = <<>>

\* the addresses expected: those of the users whose setting has the EMAIL bit and
\* who are verified when the instance requires it, in the order of the list
HasEmailBit(value) == value \in {2, 3}
Addressees(requiresEmailVerification, users, settingName) ==
  LET wanted(user) ==
        /\ HasEmailBit(settingGetter(settingName, user))
        /\ requiresEmailVerification => user.emailVerified
      kept == SelectSeq(users, wanted)
  IN [k \in DOMAIN kept |-> kept[k].email]

\* C28: a call of notify calls emailSender once at most, only when every user has
\* been processed, with exactly the addresses of the users whose setting has the
\* EMAIL bit and who are verified if the instance requires it; with no such user it
\* is not called, and a call that ends normally with such users does call it; the
\* WEB bit of a user changes none of this.
C28_OneEmailBatch ==
  \A p \in Procs :
    LET addressees == Addressees(db.REQUIRES_EMAIL_VERIFICATION, loc[p].users,
                                 loc[p].settingGetter)
    IN /\ Len(hist[p].sent) <= 1
       /\ Len(hist[p].sent) = 1 =>
            /\ loc[p].i > Len(loc[p].users)
            /\ hist[p].sent[1] = addressees
            /\ addressees # <<>>
       /\ (pc[p] = "done" /\ ~hist[p].threw /\ addressees # <<>>) => Len(hist[p].sent) = 1

C28_Witness ==
  \E p \in Procs :
    /\ pc[p] = "done"
    /\ Len(loc[p].users) = 2
    /\ db.REQUIRES_EMAIL_VERIFICATION
    /\ ~loc[p].users[1].emailVerified
    /\ settingGetter(loc[p].settingGetter, loc[p].users[1]) = 3
    /\ settingGetter(loc[p].settingGetter, loc[p].users[2]) = 2
    /\ hist[p].sent = <<(<<loc[p].users[2].email>>)>>
    /\ Len(hist[p].pushed) = 1

====
